---- MODULE Spec2Model ----
(***************************************************************************)
(* Model of the cylc-ui tree population code                               *)
(* (src/components/cylc/tree/index.js), the router's beforeEach guard      *)
(* (src/router/index.js) and the mock workflow service's subscription list *)
(* (src/services/mock/workflow.service.mock.js).                           *)
(*                                                                         *)
(* JavaScript objects live in a heap: a function from references to        *)
(* records.  A property that is absent from an object is absent from the   *)
(* record's DOMAIN.  Two objects are the same object iff their references  *)
(* are equal.                                                              *)
(***************************************************************************)
EXTENDS Integers, Sequences, FiniteSets, TLC

\* Longest cyclePoints / familyProxies / taskProxies / jobs array explored.
MaxLen == 2

\* Navigations explored.
MaxNavigations == 3

\* startDeltasSubscription calls explored.
MaxSubscriptions == 3

\* const TREE_ITEM_SIZE = 32
TREE_ITEM_SIZE == 32

\* The titles of JOB_DETAIL_NODE_PROPERTIES, in order.
JOB_DETAIL_NODE_PROPERTIES ==
  << "host id", "job id", "batch sys", "submit time", "start time",
     "finish time", "latest message" >>

VARIABLES
  tree,       \* populateTreeFromGraphQLData's first argument (a reference)
  workflow,   \* populateTreeFromGraphQLData's second argument (a reference)
  heap,       \* the objects: reference -> record
  given,      \* the heap as it was when populateTreeFromGraphQLData was called
  calls,      \* the Tree Store operations called so far, with their node
  pc,         \* position inside populateTreeFromGraphQLData
  i,          \* index of the current element of the loop that is running
  j,          \* index of the current job of the current task proxy
  error,      \* the exception that left populateTreeFromGraphQLData, or "none"
  mutated,    \* the input record the caller changed after the run, or Null
  checked     \* what a direct call of containsTreeData(workflow) returned

treeVars ==
  << tree, workflow, heap, given, calls, pc, i, j, error, mutated, checked >>

VARIABLES
  user,       \* store.state.user.user: Null or the user stored
  navs        \* per navigation: where its beforeEach guard is, and its next() calls

routerVars == << user, navs >>

VARIABLES
  subscriptions,  \* MockWorkflowService's this.subscriptions: references of entries
  created,        \* the number of startDeltasSubscription calls made
  query,          \* MockWorkflowService's this.query
  delivered,      \* the payloads handed to subscriptionOptions.next
  lastCall        \* the last call on the service: operation, argument, list before it

mockVars == << subscriptions, created, query, delivered, lastCall >>

vars == << treeVars, routerVars, mockVars >>

----------------------------------------------------------------------------
(* References and JavaScript values *)

Undefined == << "undefined", 0 >>
Null == << "null", 0 >>
TreeRef == << "tree", 1 >>
WorkflowRef == << "W", 1 >>
CyclePointRef(n) == << "C", n >>
FamilyProxyRef(n) == << "F", n >>
TaskProxyRef(n) == << "T", n >>
JobRef(t, k) == << "J", (t - 1) * MaxLen + k >>

\* The objects a factory allocates itself (createCyclePointNode's `node`).
NewRef(h) == << "new", Cardinality({ r \in DOMAIN h : r[1] = "new" }) + 1 >>

\* !!ref for a reference
TruthyRef(ref) == ref # Undefined /\ ref # Null

\* The value of a property that holds a collection: an array of references,
\* null, or some object that is not an array.
Arr(s) == [ kind |-> "array", items |-> s ]
NullVal == [ kind |-> "null", items |-> << >> ]
ObjVal == [ kind |-> "object", items |-> << >> ]

\* !!v for such a value ([] is truthy)
Truthy(v) == v.kind # "null"

\* Array.isArray(v)
IsArray(v) == v.kind = "array"

\* `f in r`
Has(r, f) == f \in DOMAIN r

EmptyRec == [ x \in {} |-> "" ]

\* The property f with value opt[1], or no property when opt is << >>.
Field(f, opt) == IF opt = << >> THEN EmptyRec ELSE f :> opt[1]

\* r.f = v
SetField(r, f, v) == [ x \in DOMAIN r \cup { f } |-> IF x = f THEN v ELSE r[x] ]

\* h with the object r at reference ref
Store(h, ref, r) == [ a \in DOMAIN h \cup { ref } |-> IF a = ref THEN r ELSE h[a] ]

----------------------------------------------------------------------------
(* Node factories *)

createWorkflowNode(wf, h) ==
  [ node |-> [ id |-> h[wf].id,
               type |-> "workflow",
               node |-> wf,
               children |-> << >> ],
    heap |-> h ]

createCyclePointNode(familyProxy, h) ==
  [ node |-> [ id |-> h[familyProxy].cyclePoint,
               type |-> "cyclepoint",
               node |-> NewRef(h),
               children |-> << >>,
               size |-> TREE_ITEM_SIZE,
               state |-> [ open |-> TRUE ] ],
    heap |-> Store(h, NewRef(h), [ id |-> h[familyProxy].cyclePoint,
                                   name |-> h[familyProxy].cyclePoint ]) ]

\* A family-proxy factory that wraps a copy of the record.
createFamilyProxyNode_Copy(familyProxy, h) ==
  [ node |-> [ id |-> h[familyProxy].id,
               type |-> "family-proxy",
               node |-> NewRef(h),
               children |-> << >>,
               size |-> TREE_ITEM_SIZE,
               state |-> [ open |-> TRUE ] ],
    heap |-> Store(h, NewRef(h), h[familyProxy]) ]

createFamilyProxyNode(familyProxy, h) ==
  [ node |-> [ id |-> h[familyProxy].id,
               type |-> "family-proxy",
               node |-> familyProxy,
               children |-> << >>,
               size |-> TREE_ITEM_SIZE,
               state |-> [ open |-> TRUE ] ],
    heap |-> h ]

\* !taskProxy.state: the property is absent or the empty string
NoState(r) == ~Has(r, "state") \/ r.state = ""

\* A task-proxy factory that resets the state whether or not there is one.
createTaskProxyNode_Overwrite(taskProxy, h) ==
  [ node |-> [ id |-> h[taskProxy].id,
               type |-> "task-proxy",
               node |-> taskProxy,
               children |-> << >>,
               size |-> TREE_ITEM_SIZE,
               state |-> [ open |-> FALSE ] ],
    heap |-> Store(h, taskProxy, SetField(h[taskProxy], "state", "")) ]

createTaskProxyNode(taskProxy, h) ==
  [ node |-> [ id |-> h[taskProxy].id,
               type |-> "task-proxy",
               node |-> taskProxy,
               children |-> << >>,
               size |-> TREE_ITEM_SIZE,
               state |-> [ open |-> FALSE ] ],
    heap |-> IF NoState(h[taskProxy])
               THEN Store(h, taskProxy, SetField(h[taskProxy], "state", ""))
               ELSE h ]

\* The default parameter value: latestMessage = ''.  The argument is << >>
\* when undefined is passed and << s >> when the string s is passed.
DefaultMessage(latestMessage) ==
  IF latestMessage = << >> THEN "" ELSE latestMessage[1]

\* A job-details node of the size of a single tree item.
jobDetailsNode_UnitSize(job, h) ==
  [ id |-> h[job].id \o "-details",
    type |-> "job-details",
    node |-> job,
    children |-> << >>,
    size |-> TREE_ITEM_SIZE,
    state |-> [ open |-> FALSE ] ]

jobDetailsNode(job, h) ==
  [ id |-> h[job].id \o "-details",
    type |-> "job-details",
    node |-> job,
    children |-> << >>,
    size |-> TREE_ITEM_SIZE * Len(JOB_DETAIL_NODE_PROPERTIES),
    state |-> [ open |-> FALSE ] ]

\* A job factory that reads latestMessage from the job record.
createJobNode_OwnMessage(job, latestMessage, h) ==
  [ node |-> [ id |-> h[job].id,
               type |-> "job",
               node |-> job,
               latestMessage |->
                 IF Has(h[job], "latestMessage") THEN h[job].latestMessage ELSE "",
               children |-> << jobDetailsNode(job, h) >>,
               size |-> TREE_ITEM_SIZE,
               state |-> [ open |-> FALSE ] ],
    heap |-> h ]

createJobNode(job, latestMessage, h) ==
  [ node |-> [ id |-> h[job].id,
               type |-> "job",
               node |-> job,
               latestMessage |-> DefaultMessage(latestMessage),
               children |-> << jobDetailsNode(job, h) >>,
               size |-> TREE_ITEM_SIZE,
               state |-> [ open |-> FALSE ] ],
    heap |-> h ]

----------------------------------------------------------------------------
(* containsTreeData *)

\* a && b on results: b is evaluated only when a is truthy; a result is
\* "true", "false", "null", "undefined", or "TypeError" when evaluation threw.
And(a, b) == IF a = "true" THEN b ELSE a

Bool(b) == IF b THEN "true" ELSE "false"

\* workflow.f && Array.isArray(workflow.f)
ArrayField(wf, f, h) ==
  IF ~TruthyRef(wf) THEN "TypeError"
  ELSE IF ~Has(h[wf], f) THEN "undefined"
  ELSE IF ~Truthy(h[wf][f]) THEN "null"
  ELSE Bool(IsArray(h[wf][f]))

\* A check that takes any truthy familyProxies for an array.
containsTreeData_NoArrayCheck(wf, h) ==
  And(Bool(wf # Undefined),
  And(Bool(wf # Null),
  And(ArrayField(wf, "cyclePoints", h),
  And(IF Has(h[wf], "familyProxies")
        THEN ( IF Truthy(h[wf].familyProxies) THEN "true" ELSE "null" )
        ELSE "undefined",
      ArrayField(wf, "taskProxies", h)))))

containsTreeData(wf, h) ==
  And(Bool(wf # Undefined),
  And(Bool(wf # Null),
  And(ArrayField(wf, "cyclePoints", h),
  And(ArrayField(wf, "familyProxies", h),
      ArrayField(wf, "taskProxies", h)))))

----------------------------------------------------------------------------
(* The records the caller supplies *)

Reverse(s) == [ k \in 1..Len(s) |-> s[Len(s) + 1 - k] ]

\* The sequences without repetition over 1..MaxLen.
InjectiveSeqs ==
  { s \in UNION { [ 1..k -> 1..MaxLen ] : k \in 0..MaxLen } :
      \A a, b \in DOMAIN s : a # b => s[a] # s[b] }

CyclePointRefs == [ n \in 1..MaxLen |-> CyclePointRef(n) ]
FamilyProxyRefs == [ n \in 1..MaxLen |-> FamilyProxyRef(n) ]
TaskProxyRefs == [ n \in 1..MaxLen |-> TaskProxyRef(n) ]
JobRefs(t) == [ k \in 1..MaxLen |-> JobRef(t, k) ]

InputRefs ==
  { WorkflowRef } \cup { CyclePointRef(n) : n \in 1..MaxLen }
    \cup { FamilyProxyRef(n) : n \in 1..MaxLen }
    \cup { TaskProxyRef(n) : n \in 1..MaxLen }
    \cup { JobRef(t, k) : t \in 1..MaxLen, k \in 1..MaxLen }

DefaultCyclePoint(n) == [ cyclePoint |-> "c" \o ToString(n) ]
DefaultFamilyProxy(n) == [ id |-> "f" \o ToString(n) ]
DefaultTaskProxy(n) ==
  [ id |-> "t" \o ToString(n), state |-> "running", latestMessage |-> "succeeded" ]
DefaultJob(q) == [ id |-> "j" \o ToString(q) ]

DefaultCyclePoints == [ n \in 1..MaxLen |-> DefaultCyclePoint(n) ]
DefaultFamilyProxies == [ n \in 1..MaxLen |-> DefaultFamilyProxy(n) ]
DefaultTaskProxies == [ n \in 1..MaxLen |-> DefaultTaskProxy(n) ]
DefaultJobs == [ q \in 1..(MaxLen * MaxLen) |-> DefaultJob(q) ]

\* workflow: { id, cyclePoints?, familyProxies?, taskProxies? }
WorkflowRecord(id, c, f, t) ==
  [ id |-> id ] @@ Field("cyclePoints", c) @@ Field("familyProxies", f)
    @@ Field("taskProxies", t)

\* taskProxy: { id, state?, latestMessage?, jobs? }
TaskProxyRecord(id, state, latestMessage, jobs) ==
  [ id |-> id ] @@ Field("state", state)
    @@ Field("latestMessage", latestMessage) @@ Field("jobs", jobs)

MkHeap(wf, cps, fps, tps, jobs) ==
  [ r \in InputRefs |->
      CASE r[1] = "W" -> wf
        [] r[1] = "C" -> cps[r[2]]
        [] r[1] = "F" -> fps[r[2]]
        [] r[1] = "T" -> tps[r[2]]
        [] r[1] = "J" -> jobs[r[2]] ]

\* A collection property: absent, null, an object that is no array, or the
\* first k of the given references.
CollectionChoices(refs) ==
  { << >>, << NullVal >>, << ObjVal >> }
    \cup { << Arr(SubSeq(refs, 1, k)) >> : k \in 0..MaxLen }

\* Every shape of the two arguments, with records that are complete.
ShapeInputs ==
  { [ tree |-> tr, workflow |-> wf,
      heap |-> MkHeap(WorkflowRecord("w", c, f, t), DefaultCyclePoints,
                      DefaultFamilyProxies, DefaultTaskProxies, DefaultJobs) ] :
      tr \in { Undefined, Null, TreeRef }, wf \in { Undefined, Null, WorkflowRef },
      c \in CollectionChoices(CyclePointRefs),
      f \in CollectionChoices(FamilyProxyRefs),
      t \in CollectionChoices(TaskProxyRefs) }

StateChoices == { << >>, << "" >>, << "running" >> }

\* Task proxies in any order, each with or without a state.
StateInputs ==
  { [ tree |-> TreeRef, workflow |-> WorkflowRef,
      heap |-> MkHeap(
        WorkflowRecord("w", << Arr(CyclePointRefs) >>, << Arr(FamilyProxyRefs) >>,
                       << Arr([ k \in DOMAIN order |-> TaskProxyRef(order[k]) ]) >>),
        DefaultCyclePoints, DefaultFamilyProxies,
        [ n \in 1..MaxLen |->
            TaskProxyRecord("t" \o ToString(n), st[n], << "succeeded" >>, << >>) ],
        DefaultJobs) ] :
      order \in InjectiveSeqs, st \in [ 1..MaxLen -> StateChoices ] }

MessageChoices(n) == { << >>, << "" >>, << "message " \o ToString(n) >> }

JobsChoices(n) ==
  { << >>, << NullVal >>, << Arr(Reverse(JobRefs(n))) >> }
    \cup { << Arr(SubSeq(JobRefs(n), 1, k)) >> : k \in 0..MaxLen }

\* Task proxies, each with one job, with or without a latestMessage.
MessageInputs ==
  { [ tree |-> TreeRef, workflow |-> WorkflowRef,
      heap |-> MkHeap(
        WorkflowRecord("w", << Arr(SubSeq(CyclePointRefs, 1, 1)) >>,
                       << Arr(SubSeq(FamilyProxyRefs, 1, 1)) >>, << Arr(order) >>),
        DefaultCyclePoints, DefaultFamilyProxies,
        [ n \in 1..MaxLen |->
            TaskProxyRecord("t" \o ToString(n), << "running" >>, msg[n],
                            << Arr(SubSeq(JobRefs(n), 1, 1)) >>) ],
        DefaultJobs) ] :
      order \in { TaskProxyRefs, Reverse(TaskProxyRefs) },
      msg \in { m \in [ 1..MaxLen -> UNION { MessageChoices(n) : n \in 1..MaxLen } ] :
                  \A n \in 1..MaxLen : m[n] \in MessageChoices(n) } }

\* Task proxies with a latestMessage, with or without jobs.
JobInputs ==
  { [ tree |-> TreeRef, workflow |-> WorkflowRef,
      heap |-> MkHeap(
        WorkflowRecord("w", << Arr(SubSeq(CyclePointRefs, 1, 1)) >>,
                       << Arr(SubSeq(FamilyProxyRefs, 1, 1)) >>, << Arr(order) >>),
        DefaultCyclePoints, DefaultFamilyProxies,
        [ n \in 1..MaxLen |->
            TaskProxyRecord("t" \o ToString(n), << "running" >>,
                            << "message " \o ToString(n) >>, jobs[n]) ],
        DefaultJobs) ] :
      order \in { TaskProxyRefs, Reverse(TaskProxyRefs) },
      jobs \in { x \in [ 1..MaxLen -> UNION { JobsChoices(n) : n \in 1..MaxLen } ] :
                   \A n \in 1..MaxLen : x[n] \in JobsChoices(n) } }

\* One cycle point, one family proxy, one task proxy with two jobs, whose
\* identifiers vary.
IdInputs ==
  { [ tree |-> TreeRef, workflow |-> WorkflowRef,
      heap |-> MkHeap(
        WorkflowRecord("w", << Arr(SubSeq(CyclePointRefs, 1, 1)) >>,
                       << Arr(SubSeq(FamilyProxyRefs, 1, 1)) >>,
                       << Arr(SubSeq(TaskProxyRefs, 1, 1)) >>),
        [ n \in 1..MaxLen |-> IF n = 1 THEN [ cyclePoint |-> c ] ELSE DefaultCyclePoint(n) ],
        [ n \in 1..MaxLen |-> IF n = 1 THEN [ id |-> f ] ELSE DefaultFamilyProxy(n) ],
        [ n \in 1..MaxLen |->
            IF n = 1
              THEN TaskProxyRecord(t, << "running" >>, << "succeeded" >>,
                                   << Arr(SubSeq(JobRefs(1), 1, 2)) >>)
              ELSE DefaultTaskProxy(n) ],
        [ q \in 1..(MaxLen * MaxLen) |->
            IF q = 1 THEN [ id |-> j1 ] ELSE IF q = 2 THEN [ id |-> j2 ]
            ELSE DefaultJob(q) ]) ] :
      c \in { "c1", "a-details" }, f \in { "f1", "a-details" },
      t \in { "t1", "a-details" },
      j1 \in { "a", "b", "a-details" }, j2 \in { "a", "b", "a-details" } }

Inputs ==
  ShapeInputs \cup StateInputs \cup MessageInputs \cup JobInputs \cup IdInputs

----------------------------------------------------------------------------
(* populateTreeFromGraphQLData *)

Call(op, node) == [ op |-> op, node |-> node ]

\* if (!tree || !workflow || !containsTreeData(workflow)) throw new Error(...)
\* A guard that does not look at the tree.
Validate_NoTreeCheck(tr, wf, h) ==
  IF ~TruthyRef(wf) THEN "invalid-input"
  ELSE IF containsTreeData(wf, h) = "TypeError" THEN "TypeError"
  ELSE IF containsTreeData(wf, h) = "true" THEN "none"
  ELSE "invalid-input"

Validate(tr, wf, h) ==
  IF ~TruthyRef(tr) \/ ~TruthyRef(wf) THEN "invalid-input"
  ELSE IF containsTreeData(wf, h) = "TypeError" THEN "TypeError"
  ELSE IF containsTreeData(wf, h) = "true" THEN "none"
  ELSE "invalid-input"

\* workflow.cyclePoints, workflow.familyProxies, workflow.taskProxies
Items(f) == heap[workflow][f].items

\* The task proxy of the running iteration of the third loop.
CurrentTaskProxy == Items("taskProxies")[i]

\* if (taskProxy.jobs)
HasJobs(r) == Has(r, "jobs") /\ Truthy(r.jobs)

\* taskProxy.latestMessage as an argument: << >> for undefined
MessageOf(r) == IF Has(r, "latestMessage") THEN << r.latestMessage >> ELSE << >>

TreeInit ==
  /\ \E in \in Inputs :
       /\ tree = in.tree
       /\ workflow = in.workflow
       /\ heap = in.heap
       /\ given = in.heap
  /\ calls = << >>
  /\ pc = "start"
  /\ i = 0
  /\ j = 0
  /\ error = "none"
  /\ mutated = Null
  /\ checked = "not called"

\* The exported containsTreeData, called on the workflow argument.
CheckTreeData ==
  /\ pc = "start"
  /\ checked = "not called"
  /\ checked' = containsTreeData(workflow, heap)
  /\ pc' = "checked"
  /\ UNCHANGED << tree, workflow, heap, given, calls, i, j, error, mutated >>
  /\ UNCHANGED << routerVars, mockVars >>

\* The guard, then createWorkflowNode and tree.setWorkflow.
PopulateEnter ==
  /\ pc = "start"
  /\ IF Validate(tree, workflow, heap) = "none"
       THEN LET r == createWorkflowNode(workflow, heap) IN
              /\ calls' = Append(calls, Call("setWorkflow", r.node))
              /\ heap' = r.heap
              /\ pc' = "cyclePoints"
              /\ i' = 1
              /\ error' = error
       ELSE /\ error' = Validate(tree, workflow, heap)
            /\ pc' = "threw"
            /\ UNCHANGED << calls, heap, i >>
  /\ UNCHANGED << tree, workflow, given, j, mutated, checked >>
  /\ UNCHANGED << routerVars, mockVars >>

\* for (const cyclePoint of workflow.cyclePoints)
AddCyclePoint ==
  /\ pc = "cyclePoints"
  /\ i <= Len(Items("cyclePoints"))
  /\ LET r == createCyclePointNode(Items("cyclePoints")[i], heap) IN
       /\ calls' = Append(calls, Call("addCyclePoint", r.node))
       /\ heap' = r.heap
  /\ i' = i + 1
  /\ UNCHANGED << tree, workflow, given, pc, j, error, mutated, checked >>
  /\ UNCHANGED << routerVars, mockVars >>

CyclePointsDone ==
  /\ pc = "cyclePoints"
  /\ i > Len(Items("cyclePoints"))
  /\ pc' = "familyProxies"
  /\ i' = 1
  /\ UNCHANGED << tree, workflow, heap, given, calls, j, error, mutated, checked >>
  /\ UNCHANGED << routerVars, mockVars >>

\* for (const familyProxy of workflow.familyProxies)
AddFamilyProxy ==
  /\ pc = "familyProxies"
  /\ i <= Len(Items("familyProxies"))
  /\ LET r == createFamilyProxyNode(Items("familyProxies")[i], heap) IN
       /\ calls' = Append(calls, Call("addFamilyProxy", r.node))
       /\ heap' = r.heap
  /\ i' = i + 1
  /\ UNCHANGED << tree, workflow, given, pc, j, error, mutated, checked >>
  /\ UNCHANGED << routerVars, mockVars >>

FamilyProxiesDone ==
  /\ pc = "familyProxies"
  /\ i > Len(Items("familyProxies"))
  /\ pc' = "taskProxies"
  /\ i' = 1
  /\ UNCHANGED << tree, workflow, heap, given, calls, j, error, mutated, checked >>
  /\ UNCHANGED << routerVars, mockVars >>

\* for (const taskProxy of workflow.taskProxies): the task proxy's own node
AddTaskProxy ==
  /\ pc = "taskProxies"
  /\ i <= Len(Items("taskProxies"))
  /\ LET r == createTaskProxyNode(CurrentTaskProxy, heap) IN
       /\ calls' = Append(calls, Call("addTaskProxy", r.node))
       /\ heap' = r.heap
       /\ IF HasJobs(r.heap[CurrentTaskProxy])
            THEN pc' = "jobs" /\ j' = 1 /\ i' = i
            ELSE pc' = pc /\ j' = j /\ i' = i + 1
  /\ UNCHANGED << tree, workflow, given, error, mutated, checked >>
  /\ UNCHANGED << routerVars, mockVars >>

\* A jobs loop that runs from the last job to the first.
AddJob_Reversed ==
  /\ pc = "jobs"
  /\ j <= Len(heap[CurrentTaskProxy].jobs.items)
  /\ LET jobs == heap[CurrentTaskProxy].jobs.items
         r == createJobNode(jobs[Len(jobs) + 1 - j],
                            MessageOf(heap[CurrentTaskProxy]), heap) IN
       /\ calls' = Append(calls, Call("addJob", r.node))
       /\ heap' = r.heap
  /\ j' = j + 1
  /\ UNCHANGED << tree, workflow, given, pc, i, error, mutated, checked >>
  /\ UNCHANGED << routerVars, mockVars >>

\* for (const job of taskProxy.jobs)
AddJob ==
  /\ pc = "jobs"
  /\ j <= Len(heap[CurrentTaskProxy].jobs.items)
  /\ LET r == createJobNode(heap[CurrentTaskProxy].jobs.items[j],
                            MessageOf(heap[CurrentTaskProxy]), heap) IN
       /\ calls' = Append(calls, Call("addJob", r.node))
       /\ heap' = r.heap
  /\ j' = j + 1
  /\ UNCHANGED << tree, workflow, given, pc, i, error, mutated, checked >>
  /\ UNCHANGED << routerVars, mockVars >>

JobsDone ==
  /\ pc = "jobs"
  /\ j > Len(heap[CurrentTaskProxy].jobs.items)
  /\ pc' = "taskProxies"
  /\ i' = i + 1
  /\ UNCHANGED << tree, workflow, heap, given, calls, j, error, mutated, checked >>
  /\ UNCHANGED << routerVars, mockVars >>

TaskProxiesDone ==
  /\ pc = "taskProxies"
  /\ i > Len(Items("taskProxies"))
  /\ pc' = "done"
  /\ UNCHANGED << tree, workflow, heap, given, calls, i, j, error, mutated, checked >>
  /\ UNCHANGED << routerVars, mockVars >>

\* After the run the caller, which shares the records with the tree, changes
\* one of them (a property the tree code never reads).
MutateRecord ==
  /\ pc = "done"
  /\ mutated = Null
  /\ \E r \in InputRefs :
       /\ heap' = Store(heap, r, SetField(heap[r], "isHeld", "true"))
       /\ mutated' = r
  /\ UNCHANGED << tree, workflow, given, calls, pc, i, j, error, checked >>
  /\ UNCHANGED << routerVars, mockVars >>

TreeNext ==
  \/ CheckTreeData
  \/ PopulateEnter
  \/ AddCyclePoint
  \/ CyclePointsDone
  \/ AddFamilyProxy
  \/ FamilyProxiesDone
  \/ AddTaskProxy
  \/ AddJob
  \/ JobsDone
  \/ TaskProxiesDone
  \/ MutateRecord

\* No population is running.
TreeIdle ==
  /\ tree = Null
  /\ workflow = Null
  /\ heap = EmptyRec
  /\ given = EmptyRec
  /\ calls = << >>
  /\ pc = "idle"
  /\ i = 0
  /\ j = 0
  /\ error = "none"
  /\ mutated = Null
  /\ checked = "not called"

----------------------------------------------------------------------------
(* router.beforeEach *)

NotStarted == [ guard |-> "not started", nextCalls |-> 0 ]

RouterInit ==
  /\ user \in { Null, << "user", 1 >> }
  /\ navs = [ n \in 1..MaxNavigations |-> NotStarted ]

\* A navigation starts and the guard runs: without a user in the store it
\* calls UserService.getUserProfile() and registers the reaction that calls
\* next(); with one it calls next().
BeforeEach(n) ==
  /\ navs[n].guard = "not started"
  /\ IF ~TruthyRef(user)
       THEN navs' = [ navs EXCEPT ![n] = [ guard |-> "pending", nextCalls |-> 0 ] ]
       ELSE navs' = [ navs EXCEPT ![n] = [ guard |-> "returned",
                                           nextCalls |-> navs[n].nextCalls + 1 ] ]
  /\ UNCHANGED user
  /\ UNCHANGED << treeVars, mockVars >>

\* The promise of getUserProfile() is fulfilled: the reaction is queued.
ProfileFulfilled(n) ==
  /\ navs[n].guard = "pending"
  /\ navs' = [ navs EXCEPT ![n].guard = "fulfilled" ]
  /\ user' \in { user, << "user", 1 >> }
  /\ UNCHANGED << treeVars, mockVars >>

\* The promise of getUserProfile() is rejected: then() was given no reaction
\* to a rejection, so nothing is queued.
ProfileRejected(n) ==
  /\ navs[n].guard = "pending"
  /\ navs' = [ navs EXCEPT ![n].guard = "rejected" ]
  /\ UNCHANGED user
  /\ UNCHANGED << treeVars, mockVars >>

\* The reaction () => { next() } runs.
ThenNext(n) ==
  /\ navs[n].guard = "fulfilled"
  /\ navs' = [ navs EXCEPT ![n] = [ guard |-> "reacted",
                                    nextCalls |-> navs[n].nextCalls + 1 ] ]
  /\ UNCHANGED user
  /\ UNCHANGED << treeVars, mockVars >>

RouterNext ==
  \E n \in 1..MaxNavigations :
    \/ BeforeEach(n)
    \/ ProfileFulfilled(n)
    \/ ProfileRejected(n)
    \/ ThenNext(n)

----------------------------------------------------------------------------
(* MockWorkflowService *)

SubscriptionRef(k) == << "S", k >>
EntryRef(k) == << "E", k >>

\* The objects startDeltasSubscription has created: the k-th call creates the
\* subscription S k and pushes the entry E k = { subscription: S k }.
MockObjects ==
  { SubscriptionRef(k) : k \in 1..created } \cup { EntryRef(k) : k \in 1..created }

\* A query document: its name and whether its source text includes 'deltas'.
Queries ==
  { [ name |-> nm, deltas |-> d ] : nm \in { "workflow", "tree" }, d \in BOOLEAN }

NoQuery == [ name |-> "null", deltas |-> FALSE ]

\* Array.prototype.indexOf with strict equality, from 0; -1 when absent.
IndexOf(list, x) ==
  IF \E k \in 1..Len(list) : list[k] = x
    THEN ( CHOOSE k \in 1..Len(list) :
             list[k] = x /\ \A m \in 1..(k - 1) : list[m] # x ) - 1
    ELSE -1

\* Array.prototype.splice(start, 1): a negative start counts from the end.
Splice1(list, start) ==
  LET from == IF start < 0
                THEN ( IF Len(list) + start < 0 THEN 0 ELSE Len(list) + start )
                ELSE ( IF start > Len(list) THEN Len(list) ELSE start )
  IN  SubSeq(list, 1, from) \o SubSeq(list, from + 2, Len(list))

MockInit ==
  /\ subscriptions = << >>
  /\ created = 0
  /\ query = NoQuery
  /\ delivered = 0
  /\ lastCall = [ op |-> "constructor", arg |-> Null, before |-> << >> ]

startDeltasSubscription(q) ==
  /\ created < MaxSubscriptions
  /\ query' = IF ~q.deltas THEN q ELSE query
  /\ created' = created + 1
  /\ subscriptions' = Append(subscriptions, EntryRef(created + 1))
  /\ delivered' = delivered + 1
  /\ lastCall' = [ op |-> "startDeltasSubscription", arg |-> Null,
                   before |-> subscriptions ]
  /\ UNCHANGED << treeVars, routerVars >>

\* The unsubscribe function of a subscription created, called with x:
\* this.subscriptions.splice(this.subscriptions.indexOf(x), 1)
unsubscribe(x) ==
  /\ subscriptions' = Splice1(subscriptions, IndexOf(subscriptions, x))
  /\ lastCall' = [ op |-> "unsubscribe", arg |-> x, before |-> subscriptions ]
  /\ UNCHANGED << created, query, delivered >>
  /\ UNCHANGED << treeVars, routerVars >>

MockNext ==
  \/ \E q \in Queries : startDeltasSubscription(q)
  \/ \E x \in MockObjects : unsubscribe(x)

----------------------------------------------------------------------------
(* Specifications *)

Init == TreeInit /\ RouterInit /\ user = Null /\ MockInit

Next == TreeNext

\* populateTreeFromGraphQLData and containsTreeData on every input
Spec == Init /\ [][Next]_vars

\* The navigation guard
InitRouter == TreeIdle /\ RouterInit /\ MockInit

SpecRouter == InitRouter /\ [][RouterNext]_vars

\* The mock service's subscription list
InitMock == TreeIdle /\ RouterInit /\ user = Null /\ MockInit

SpecMock == InitMock /\ [][MockNext]_vars

----------------------------------------------------------------------------
(* What the claims speak about *)

RequiredFields == { "cyclePoints", "familyProxies", "taskProxies" }

\* The record is neither null nor undefined and its three collections are
\* present and are arrays.
WellShaped(wf, h) ==
  /\ wf # Undefined
  /\ wf # Null
  /\ \A f \in RequiredFields : Has(h[wf], f) /\ h[wf][f].kind = "array"

\* Both arguments are acceptable.
ValidInput == tree = TreeRef /\ WellShaped(workflow, given)

RECURSIVE Concat(_)
Concat(ss) == IF ss = << >> THEN << >> ELSE Head(ss) \o Concat(Tail(ss))

\* The calls a task proxy is due: its own, then one per job.
DueOfTaskProxy(t) ==
  << [ op |-> "addTaskProxy", ref |-> t, owner |-> Null ] >>
    \o ( IF Has(given[t], "jobs") /\ given[t].jobs.kind = "array"
           THEN [ k \in 1..Len(given[t].jobs.items) |->
                    [ op |-> "addJob", ref |-> given[t].jobs.items[k], owner |-> t ] ]
           ELSE << >> )

\* The Tree Store calls that are due for the records supplied, each with the
\* record it is for and, for a job, the task proxy that owns it.
Due ==
  LET w == given[workflow] IN
    << [ op |-> "setWorkflow", ref |-> workflow, owner |-> Null ] >>
      \o [ k \in 1..Len(w.cyclePoints.items) |->
             [ op |-> "addCyclePoint", ref |-> w.cyclePoints.items[k], owner |-> Null ] ]
      \o [ k \in 1..Len(w.familyProxies.items) |->
             [ op |-> "addFamilyProxy", ref |-> w.familyProxies.items[k], owner |-> Null ] ]
      \o Concat([ k \in 1..Len(w.taskProxies.items) |->
                    DueOfTaskProxy(w.taskProxies.items[k]) ])

\* The identifier of an input record.
IdOf(ref) ==
  IF ref[1] = "C" THEN given[ref].cyclePoint ELSE given[ref].id

Phase(op) ==
  CASE op = "setWorkflow" -> 1
    [] op = "addCyclePoint" -> 2
    [] op = "addFamilyProxy" -> 3
    [] op \in { "addTaskProxy", "addJob" } -> 4

NumberOf(op) == Cardinality({ k \in 1..Len(calls) : calls[k].op = op })

RECURSIVE SumJobs(_)
SumJobs(ts) ==
  IF ts = << >> THEN 0
  ELSE ( IF Has(given[Head(ts)], "jobs") /\ given[Head(ts)].jobs.kind = "array"
           THEN Len(given[Head(ts)].jobs.items) ELSE 0 ) + SumJobs(Tail(ts))

\* C1: for valid input the Tree Store calls are, in this order: setWorkflow
\* once, addCyclePoint per cycle point, addFamilyProxy per family proxy, and
\* per task proxy addTaskProxy followed at once by addJob per job of it, all
\* in the order supplied; no call of a later phase precedes one of an earlier
\* phase and the addJob calls number the total length of the jobs arrays.
C1_CallOrder ==
  ValidInput /\ pc # "checked" =>
    /\ Len(calls) <= Len(Due)
    /\ \A k \in 1..Len(calls) :
         /\ calls[k].op = Due[k].op
         /\ calls[k].node.id = IdOf(Due[k].ref)
    /\ \A a, b \in 1..Len(calls) : a < b => Phase(calls[a].op) <= Phase(calls[b].op)
    /\ pc = "done" =>
         /\ Len(calls) = Len(Due)
         /\ NumberOf("setWorkflow") = 1
         /\ NumberOf("addJob") = SumJobs(given[workflow].taskProxies.items)

C1_Witness ==
  /\ pc = "done"
  /\ Len(given[workflow].cyclePoints.items) = 1
  /\ \E k \in 1..(Len(calls) - 2) :
       /\ calls[k].op = "addJob"
       /\ calls[k + 1].op = "addTaskProxy"
       /\ calls[k + 2].op = "addJob"

\* C2: when the tree is null, or the workflow is null, or the workflow fails
\* containsTreeData, the invalid-input error is raised before any Tree Store
\* operation is called: no call is ever made and nothing is changed.
C2_InvalidInputRaises ==
  ~ValidInput /\ pc # "checked" =>
    /\ pc \in { "start", "threw" }
    /\ pc = "threw" => error = "invalid-input"
    /\ calls = << >>
    /\ heap = given

C2_Witness ==
  /\ pc = "threw"
  /\ tree = TreeRef
  /\ workflow = WorkflowRef
  /\ ~Has(given[workflow], "familyProxies")
  /\ Has(given[workflow], "cyclePoints")
  /\ Has(given[workflow], "taskProxies")

\* C3: containsTreeData returns true only if the record is neither null nor
\* undefined and its three collections are present and are arrays; it accepts
\* a record whose three collections are empty arrays; it never raises and
\* never changes the record.
C3_ContainsTreeData ==
  pc = "checked" =>
    /\ checked # "TypeError"
    /\ checked = "true" => WellShaped(workflow, given)
    /\ ( /\ TruthyRef(workflow)
         /\ \A f \in RequiredFields :
              Has(given[workflow], f) /\ given[workflow][f] = Arr(<< >>) )
         => checked = "true"
    /\ heap = given

C3_Witness ==
  /\ pc = "checked"
  /\ checked = "true"
  /\ \A f \in RequiredFields : given[workflow][f] = Arr(<< >>)

\* The task proxies the run visits.
Visited ==
  { given[workflow].taskProxies.items[k] :
      k \in 1..Len(given[workflow].taskProxies.items) }

\* C4: after a successful run every task proxy that had no state has state ''
\* on the record itself, every task proxy that had a state keeps it, and no
\* other property of any input record has changed.
C4_StateDefaulted ==
  pc = "done" /\ mutated = Null =>
    /\ \A t \in Visited :
         /\ Has(heap[t], "state")
         /\ heap[t].state = IF Has(given[t], "state") THEN given[t].state ELSE ""
    /\ \A r \in InputRefs :
         /\ DOMAIN heap[r] \ { "state" } = DOMAIN given[r] \ { "state" }
         /\ \A f \in DOMAIN given[r] \ { "state" } : heap[r][f] = given[r][f]
         /\ r \notin Visited => heap[r] = given[r]

C4_Witness ==
  /\ pc = "done"
  /\ mutated = Null
  /\ \E t, u \in Visited :
       /\ ~Has(given[t], "state")
       /\ heap[t].state = ""
       /\ Has(given[u], "state")
       /\ given[u].state = "running"

\* The nodes handed to addJob.
JobCalls == { k \in 1..Len(calls) : calls[k].op = "addJob" }

\* The nodes that carry a size.
Sized == { k \in 1..Len(calls) : Has(calls[k].node, "size") }

\* C5: every job node has exactly one child, of type job-details, whose id is
\* the job's id followed by '-details', whose size is 7 times the base unit
\* that every other sized node has, whose state.open is false and which has
\* no children.
C5_JobDetails ==
  ValidInput =>
    \A k \in JobCalls :
      LET n == calls[k].node IN
        /\ Len(n.children) = 1
        /\ n.children[1].type = "job-details"
        /\ n.children[1].id = given[Due[k].ref].id \o "-details"
        /\ \A m \in Sized : n.children[1].size = calls[m].node.size * 7
        /\ n.children[1].state.open = FALSE
        /\ n.children[1].children = << >>

C5_Witness ==
  /\ pc = "done"
  /\ Cardinality(JobCalls) >= 2
  /\ \E k \in 1..Len(calls) : calls[k].op = "addCyclePoint"

\* C6 as claimed: the `node` of every node of every kind, the job-details
\* child included, is the very record the caller supplied.
C6_EveryNodeShares ==
  ValidInput =>
    \A k \in 1..Len(calls) :
      /\ calls[k].node.node = Due[k].ref
      /\ \A c \in 1..Len(calls[k].node.children) :
           calls[k].node.children[c].node = Due[k].ref

\* C6, amended: the `node` of a workflow, family-proxy, task-proxy, job and
\* job-details node is the very record the caller supplied, so a later change
\* of the record shows through it; the `node` of a cyclepoint node is an object
\* of its own holding the cycle point value as id and name, which a later
\* change of the record supplied does not reach.
C6_NodeSharesExceptCyclePoint ==
  ValidInput =>
    \A k \in 1..Len(calls) :
      LET n == calls[k].node IN
        IF n.type = "cyclepoint"
          THEN /\ n.node \notin InputRefs
               /\ heap[n.node] = [ id |-> given[Due[k].ref].cyclePoint,
                                   name |-> given[Due[k].ref].cyclePoint ]
               /\ \A m \in 1..Len(calls) : m # k => calls[m].node.node # n.node
          ELSE /\ n.node = Due[k].ref
               /\ heap[n.node] = heap[Due[k].ref]
               /\ \A c \in 1..Len(n.children) : n.children[c].node = Due[k].ref

C6_Witness ==
  /\ pc = "done"
  /\ mutated = CyclePointRef(1)
  /\ \E k \in 1..Len(calls) :
       /\ calls[k].op = "addCyclePoint"
       /\ Due[k].ref = mutated
       /\ ~Has(heap[calls[k].node.node], "isHeld")
  /\ JobCalls # {}

\* Every node the run produced: the nodes handed to the Tree Store and their
\* children.
Produced ==
  Concat([ k \in 1..Len(calls) |-> << calls[k].node >> \o calls[k].node.children ])

\* C7: when the identifiers of the input records are pairwise distinct, the
\* ids of all nodes produced, job-details nodes included, are pairwise
\* distinct.
C7_UniqueIds ==
  ( /\ ValidInput
    /\ pc = "done"
    /\ \A a, b \in 1..Len(Due) : a # b => IdOf(Due[a].ref) # IdOf(Due[b].ref) )
    => \A a, b \in 1..Len(Produced) : a # b => Produced[a].id # Produced[b].id

\* C8: every job node carries the latestMessage of the task proxy whose jobs
\* contain the job, and '' when that task proxy has none.
C8_LatestMessage ==
  ValidInput =>
    \A k \in JobCalls :
      calls[k].node.latestMessage =
        IF Has(given[Due[k].owner], "latestMessage")
          THEN given[Due[k].owner].latestMessage
          ELSE ""

C8_Witness ==
  /\ pc = "done"
  /\ \E a, b \in JobCalls :
       /\ ~Has(given[Due[a].owner], "latestMessage")
       /\ calls[a].node.latestMessage = ""
       /\ calls[b].node.latestMessage = "message 2"

----------------------------------------------------------------------------
(* The navigation guard and the mock service *)

\* C9: the guard calls next() exactly once per navigation: at once when a
\* user is stored, and otherwise once getUserProfile() has settled, whether
\* fulfilled or rejected, and never before it has settled.
C9_NextOncePerNavigation ==
  \A n \in 1..MaxNavigations :
    /\ navs[n].nextCalls <= 1
    /\ navs[n].guard = "returned" => navs[n].nextCalls = 1
    /\ navs[n].guard = "pending" => navs[n].nextCalls = 0
    /\ navs[n].guard \in { "reacted", "rejected" } => navs[n].nextCalls = 1

\* The entry pushed for a subscription.
EntryOf(sub) == EntryRef(sub[2])

\* The list without the entry e, the rest in the same order.
Without(list, e) == SelectSeq(list, LAMBDA x : x # e)

\* C10: the unsubscribe function of a subscription created, called with that
\* subscription, removes exactly the entry pushed for that subscription and
\* leaves every other entry, in the same order.
C10_UnsubscribeRemovesOwnEntry ==
  ( lastCall.op = "unsubscribe" /\ lastCall.arg[1] = "S" )
    => subscriptions = Without(lastCall.before, EntryOf(lastCall.arg))

====
